---- MODULE Spec2Model ----
(***************************************************************************)
(* Credential / token lifecycle of the Cyclo Veda backend:                 *)
(*   app/services/auth_service.py  (AuthService, fake_users_db)            *)
(*   app/auth/dependencies.py      (security, get_current_user, ...)       *)
(*   app/routers/auth.py           (POST /auth/login, GET /auth/me)        *)
(*   app/models/user.py, token.py  (pydantic models)                       *)
(*                                                                         *)
(* Python strings are records [isstr, at, local, domain]: an address       *)
(* "l@d" has at = TRUE, any other text has at = FALSE and its characters   *)
(* in local.  A datetime is a number of clock ticks, TicksPerSecond ticks  *)
(* to the second; a JWT NumericDate is a number of whole seconds.          *)
(***************************************************************************)
EXTENDS Integers, Sequences, FiniteSets, TLC

(* ------------------------------ bounds -------------------------------- *)

\* sub-second resolution of datetime (microseconds in CPython, scaled down)
TicksPerSecond == 2

\* the clock is observed for this many ticks after each lifetime mark
Window == 2

\* the clock stops after this many minutes
MaxMinutes == 31

\* unused low bits of the last base64url character of an HS256 signature:
\* values 0..PadMax (43 characters carry 258 bits for a 256 bit MAC)
PadMax == 1

\* calls of get_password_hash the process makes after seeding its store
MaxHashes == 2

(* ------------------------- program constants -------------------------- *)

ALGORITHM == "HS256"

ACCESS_TOKEN_EXPIRE_MINUTES == 30

DEFAULT_TOKEN_EXPIRE_MINUTES == 15

AUTH_SCHEME == "Bearer"

INVALID_CREDENTIALS_MESSAGE == "Could not validate credentials"

INACTIVE_USER_MESSAGE == "Inactive user"

\* the process from the start of main.py on: where it stands (pc), its
\* environment (os.environ), the .env file beside it, and the module
\* attribute auth_service.SECRET_KEY once the module is imported
VARIABLE boot

\* the credential store: the module-level dict of auth_service
VARIABLE fake_users_db

\* the default of os.getenv("SECRET_KEY", ...)
FALLBACK_SECRET_KEY == "your-secret-key-change-this-in-production"

\* the key read from the environment at every use
SECRET_KEY_from_environ ==
    IF "SECRET_KEY" \in DOMAIN boot.environ
    THEN boot.environ["SECRET_KEY"]
    ELSE FALLBACK_SECRET_KEY

\* auth_service.SECRET_KEY
SECRET_KEY == boot.SECRET_KEY

\* any key that is not the process key
FOREIGN_KEY == "foreign-secret"

Keys == {SECRET_KEY, FOREIGN_KEY}

TicksPerMinute == 60 * TicksPerSecond

MaxTime == MaxMinutes * TicksPerMinute

\* the clock is next observed one tick before an access token lifetime is over
JumpStep == ACCESS_TOKEN_EXPIRE_MINUTES * TicksPerMinute - 1

(* ------------------------------ strings ------------------------------- *)

Email(l, d) == [isstr |-> TRUE, at |-> TRUE, local |-> l, domain |-> d]

Plain(s) == [isstr |-> TRUE, at |-> FALSE, local |-> s, domain |-> ""]

\* a JSON number where a string is expected
Number(s) == [isstr |-> FALSE, at |-> FALSE, local |-> s, domain |-> ""]

\* str.lower() on the texts of the model
Lower(s) ==
    CASE s = "CYCLOVEDA.COM" -> "cycloveda.com"
      [] s = "CycloVeda.Com" -> "cycloveda.com"
      [] s = "EXAMPLE.COM" -> "example.com"
      [] s = "ADMIN" -> "admin"
      [] s = "Admin" -> "admin"
      [] s = "Bearer" -> "bearer"
      [] s = "BEARER" -> "bearer"
      [] s = "NotBearer" -> "notbearer"
      [] OTHER -> s

AdminEmail == Email("admin", "cycloveda.com")

UserEmail == Email("user", "example.com")

\* every key of the store, and the addresses a client may type instead
StoredEmails == {AdminEmail, UserEmail}

(* ------------------------- pydantic EmailStr -------------------------- *)

\* email_validator's syntax check, as far as the texts of the model go: one
\* "@" with a non-empty local part and a non-empty domain
IsEmailSyntax(s) == s.isstr /\ s.at /\ s.local # "" /\ s.domain # ""

\* EmailStr validation: rejects what is no address, and returns the
\* normalized address, whose domain is lower-cased (the local part is kept)
EmailStr(s) ==
    IF IsEmailSyntax(s)
    THEN [ok |-> TRUE, value |-> Email(s.local, Lower(s.domain))]
    ELSE [ok |-> FALSE, value |-> s]

(* --------------------------- python values ----------------------------- *)

None == [kind |-> "None"]

Raise(exc) == [kind |-> "raise", exc |-> exc]

\* Optional[datetime] / Optional[timedelta]
Unset == [given |-> FALSE, ticks |-> 0]

Given(t) == [given |-> TRUE, ticks |-> t]

\* dict.get(key) is not None
Has(d, k) == k \in DOMAIN d

\* a dict without keys
EmptyDict == [k \in {} |-> ""]

\* os.getenv(key, default)
getenv(environ, key, default) == IF Has(environ, key) THEN environ[key] ELSE default

\* dotenv.load_dotenv(): the variables of the file are added to os.environ,
\* those already set are kept (override=False)
load_dotenv(environ, file) ==
    [k \in DOMAIN environ \cup DOMAIN file |->
        IF k \in DOMAIN environ THEN environ[k] ELSE file[k]]

\* calendar.timegm(dt.utctimetuple()): whole seconds, microseconds dropped
timegm(dt) == dt \div TicksPerSecond

(* ------------------------------ token codec ---------------------------- *)

HeaderSeg(alg) == [kind |-> "header", alg |-> alg]

PayloadSeg(claims) == [kind |-> "payload", claims |-> claims]

\* the signature segment: the base64url text of the MAC bytes; pad are the
\* low bits of its last character, which carry no byte of the MAC
SigSeg(mac, pad) == [kind |-> "signature", mac |-> mac, pad |-> pad]

\* a segment that is no base64url JSON object
Garbage(s) == [kind |-> "garbage", text |-> s]

\* HMAC-SHA256 as an ideal MAC: the bytes determine key and message; flip # 0
\* are bytes that differ from every MAC (an altered signature)
Hmac(key, alg, claims) == [key |-> key, alg |-> alg, claims |-> claims, flip |-> 0]

\* jose.utils.base64url_decode on the signature segment: the surplus bits
\* of the last character are dropped by base64.urlsafe_b64decode
base64url_decode(seg) == seg.mac

\* jose.jwt.encode: datetime claims become NumericDate seconds, then the
\* three segments header.payload.signature
jws_sign(payload, key, algorithm) ==
    [segments |-> << HeaderSeg(algorithm), PayloadSeg(payload),
                     SigSeg(Hmac(key, algorithm, payload), 0) >>]

jwt_encode(claims, key, algorithm) ==
    jws_sign([k \in DOMAIN claims |->
                IF k = "exp" THEN timegm(claims[k].ticks) ELSE claims[k]],
             key, algorithm)

JWTError(msg) == [ok |-> FALSE, error |-> msg]

\* jose.jws: the decoded signature segment against the key's MAC of the
\* header and payload segments
signature_verifies(token, key) ==
    base64url_decode(token.segments[3]) =
        Hmac(key, token.segments[1].alg, token.segments[2].claims)

\* the exp test comparing for the second that follows exp only
exp_expired_next_second_only(claims, now) ==
    Has(claims, "exp") /\ claims["exp"] = timegm(now) - 1

\* jose.jwt: exp validation (no leeway) against the whole second of now
exp_expired(claims, now) ==
    Has(claims, "exp") /\ claims["exp"] < timegm(now)

\* jose.jwt.decode(token, key, algorithms=[...]) at verification time now:
\* a payload, or one of the JWTError family
jwt_decode(token, key, algorithms, now) ==
    LET segs == token.segments IN
    IF Len(segs) # 3
    THEN JWTError("Not enough segments")
    ELSE IF segs[1].kind # "header"
    THEN JWTError("Invalid header string")
    ELSE IF segs[2].kind # "payload"
    THEN JWTError("Invalid payload string")
    ELSE IF segs[3].kind # "signature"
    THEN JWTError("Invalid crypto padding")
    ELSE IF segs[1].alg \notin algorithms
    THEN JWTError("The specified alg value is not allowed")
    ELSE IF ~signature_verifies(token, key)
    THEN JWTError("Signature verification failed")
    ELSE IF exp_expired(segs[2].claims, now)
    THEN JWTError("Signature has expired")
    ELSE IF Has(segs[2].claims, "sub") /\ ~segs[2].claims["sub"].isstr
    THEN JWTError("Subject must be a string")
    ELSE [ok |-> TRUE, payload |-> segs[2].claims]

(* ------------------------------ AuthService ---------------------------- *)

\* TokenData(email=email): scopes and exp keep their defaults
TokenData(email) == [kind |-> "TokenData", email |-> email, scopes |-> << >>, exp |-> Unset]

\* verify_token turning away a token whose user is gone or deactivated
verify_token_checks_store(token, now) ==
    LET r == jwt_decode(token, SECRET_KEY, {ALGORITHM}, now) IN
    IF ~r.ok
    THEN None
    ELSE IF ~Has(r.payload, "sub")
    THEN None
    ELSE IF ~EmailStr(r.payload["sub"]).ok
    THEN Raise("ValidationError")
    ELSE IF ~(/\ EmailStr(r.payload["sub"]).value \in DOMAIN fake_users_db
              /\ fake_users_db[EmailStr(r.payload["sub"]).value].is_active)
    THEN None
    ELSE TokenData(EmailStr(r.payload["sub"]).value)

\* AuthService.verify_token: only JWTError is caught
verify_token(token, now) ==
    LET r == jwt_decode(token, SECRET_KEY, {ALGORITHM}, now) IN
    IF ~r.ok
    THEN None
    ELSE IF ~Has(r.payload, "sub")
    THEN None
    ELSE IF EmailStr(r.payload["sub"]).ok
    THEN TokenData(EmailStr(r.payload["sub"]).value)
    ELSE Raise("ValidationError")

\* the expiry create_access_token computes: timedelta(0) is falsy
token_expire(expires_delta, utc_now) ==
    IF expires_delta.given /\ expires_delta.ticks # 0
    THEN utc_now + expires_delta.ticks
    ELSE utc_now + DEFAULT_TOKEN_EXPIRE_MINUTES * TicksPerMinute

\* AuthService.create_access_token: the token, and the caller's dict after
\* the call (the update goes to a copy)
create_access_token(data, expires_delta, utc_now) ==
    LET expire == token_expire(expires_delta, utc_now)
        to_encode == [k \in DOMAIN data \cup {"exp"} |->
                        IF k = "exp" THEN Given(expire) ELSE data[k]]
    IN  [token |-> jwt_encode(to_encode, SECRET_KEY, ALGORITHM),
         expire |-> expire,
         data_after |-> data]

(* --------------------------- password hashing -------------------------- *)

\* the passwords of 73 characters and more, written by their length
LongPassword == "a * 1000"

\* bcrypt reads the first 72 bytes of the password
bcrypt_truncate(password) ==
    CASE password = "a * 1000" -> "a * 72"
      [] password = "a * 73" -> "a * 72"
      [] OTHER -> password

\* a bcrypt digest string "$2b$12$<salt><checksum>": the salt and the bytes
\* of the password the checksum was made from
BcryptHash(salt, password) ==
    [scheme |-> "bcrypt", salt |-> salt, pw |-> bcrypt_truncate(password)]

\* text that is no digest of a configured scheme: "", "hash"
NotAHash(text) == [scheme |-> "unknown", salt |-> 0, pw |-> text]

\* AuthService.verify_password: pwd_context.verify, whose UnknownHashError
\* on an unidentified digest is not caught
verify_password(plain_password, hashed_password) ==
    IF hashed_password.scheme # "bcrypt"
    THEN Raise("UnknownHashError")
    ELSE [kind |-> "bool",
          value |-> (hashed_password = BcryptHash(hashed_password.salt, plain_password))]

\* the salts bcrypt can draw
Salts == 0..MaxHashes

\* a salt that is the same at every call
gensalt_constant(used) == {0}

\* the 128 random bits bcrypt draws for a digest: a salt no earlier digest
\* of the process carries
gensalt(used) == Salts \ used

\* AuthService.get_password_hash: pwd_context.hash under the drawn salt
get_password_hash(password, salt) == BcryptHash(salt, password)

(* ---------------------------- credential store ------------------------- *)

UserRecord(username, email, active) ==
    [username |-> username, email |-> email,
     hashed_password |-> get_password_hash("password", 0), is_active |-> active]

\* fake_users_db after _initialize_mock_users
SeededStore ==
    [e \in StoredEmails |->
        IF e = AdminEmail THEN UserRecord("admin", AdminEmail, TRUE)
        ELSE UserRecord("testuser", UserEmail, TRUE)]

\* the module-level dict as the handlers may find it: seeded, or (as the
\* tests patch it) with the admin account deactivated or removed
StoreSnapshots ==
    { SeededStore,
      [SeededStore EXCEPT ![AdminEmail].is_active = FALSE],
      [e \in {UserEmail} |-> SeededStore[e]] }

\* User(**user_dict) keeping every key of the record
User_with_record(user_dict) ==
    [kind |-> "User", roles |-> << >>] @@
    [user_dict EXCEPT !.email = EmailStr(user_dict.email).value]

\* User(**user_dict): email through EmailStr, hashed_password ignored
User(user_dict) ==
    [kind |-> "User", email |-> EmailStr(user_dict.email).value,
     username |-> user_dict.username, is_active |-> user_dict.is_active,
     roles |-> << >>]

\* AuthService.get_user
get_user(db, email) ==
    IF email \in DOMAIN db THEN User(db[email]) ELSE None

\* authenticate_user answering a failure with False
authenticate_user_returns_false(db, email, password) ==
    IF get_user(db, email) = None
    THEN [kind |-> "bool", value |-> FALSE]
    ELSE IF verify_password(password, db[email].hashed_password).kind = "raise"
    THEN verify_password(password, db[email].hashed_password)
    ELSE IF ~verify_password(password, db[email].hashed_password).value
    THEN [kind |-> "bool", value |-> FALSE]
    ELSE get_user(db, email)

\* authenticate_user without the password test
authenticate_user_no_password_check(db, email, password) == get_user(db, email)

\* authenticate_user turning a deactivated account away
authenticate_user_active_only(db, email, password) ==
    IF get_user(db, email) = None
    THEN None
    ELSE IF verify_password(password, db[email].hashed_password).kind = "raise"
    THEN verify_password(password, db[email].hashed_password)
    ELSE IF ~verify_password(password, db[email].hashed_password).value
    THEN None
    ELSE IF ~db[email].is_active
    THEN None
    ELSE get_user(db, email)

\* AuthService.authenticate_user
authenticate_user(db, email, password) ==
    IF get_user(db, email) = None
    THEN None
    ELSE IF verify_password(password, db[email].hashed_password).kind = "raise"
    THEN verify_password(password, db[email].hashed_password)
    ELSE IF ~verify_password(password, db[email].hashed_password).value
    THEN None
    ELSE get_user(db, email)

\* the service calls authenticate_user makes, in order
authenticate_user_calls(db, email, password) ==
    IF get_user(db, email) = None
    THEN << "get_user" >>
    ELSE << "get_user", "verify_password" >>

\* authenticate_user taking an account out of use after a wrong password
authenticate_user_lockout(db, email, password) ==
    IF email \in DOMAIN db /\ authenticate_user(db, email, password) = None
    THEN [db EXCEPT ![email].is_active = FALSE]
    ELSE db

\* fake_users_db after authenticate_user: the dict is read, never written
authenticate_user_store(db, email, password) == db

(* ----------------------------- request guard --------------------------- *)

HTTPException(status, detail) ==
    [kind |-> "HTTPException", status |-> status, detail |-> detail]

\* _create_credentials_exception
credentials_exception(detail) == HTTPException(401, detail)

NoToken == [segments |-> << >>]

\* an Authorization header "<scheme> <param>"; has_param is FALSE when no
\* text follows the scheme word
NoHeader == [present |-> FALSE, scheme |-> "", has_param |-> FALSE, token |-> NoToken]

Header(scheme, token) ==
    [present |-> TRUE, scheme |-> scheme, has_param |-> TRUE, token |-> token]

BareHeader(scheme) ==
    [present |-> TRUE, scheme |-> scheme, has_param |-> FALSE, token |-> NoToken]

\* security = HTTPBearer(auto_error=False): None when the header is absent,
\* has no parameter, or names another scheme than bearer
security(authorization) ==
    IF ~(authorization.present /\ authorization.scheme # "" /\ authorization.has_param)
    THEN None
    ELSE IF Lower(authorization.scheme) # "bearer"
    THEN None
    ELSE [kind |-> "credentials", scheme |-> authorization.scheme,
          credentials |-> authorization.token]

\* what a dependency hands on: its result and the service calls it made
Outcome(result, calls) == [result |-> result, calls |-> calls]

\* get_current_user with the "if not credentials" test left out: the
\* attribute access on None raises
get_current_user_unguarded(credentials, db, now) ==
    IF credentials = None
    THEN Outcome(Raise("AttributeError"), << >>)
    ELSE IF Lower(credentials.scheme) # Lower(AUTH_SCHEME)
    THEN Outcome(credentials_exception("Invalid authentication scheme. Expected: Bearer"), << >>)
    ELSE LET token_data == verify_token(credentials.credentials, now) IN
         IF token_data.kind = "raise"
         THEN Outcome(token_data, << "verify_token" >>)
         ELSE IF token_data = None
         THEN Outcome(credentials_exception("Invalid or expired token"), << "verify_token" >>)
         ELSE LET user == get_user(db, token_data.email) IN
              IF user = None
              THEN Outcome(credentials_exception("User not found"),
                           << "verify_token", "get_user" >>)
              ELSE Outcome(user, << "verify_token", "get_user" >>)

\* get_current_user
get_current_user(credentials, db, now) ==
    IF credentials = None
    THEN Outcome(credentials_exception("Missing Authorization header"), << >>)
    ELSE IF Lower(credentials.scheme) # Lower(AUTH_SCHEME)
    THEN Outcome(credentials_exception("Invalid authentication scheme. Expected: Bearer"), << >>)
    ELSE LET token_data == verify_token(credentials.credentials, now) IN
         IF token_data.kind = "raise"
         THEN Outcome(token_data, << "verify_token" >>)
         ELSE IF token_data = None
         THEN Outcome(credentials_exception("Invalid or expired token"), << "verify_token" >>)
         ELSE LET user == get_user(db, token_data.email) IN
              IF user = None
              THEN Outcome(credentials_exception("User not found"),
                           << "verify_token", "get_user" >>)
              ELSE Outcome(user, << "verify_token", "get_user" >>)

\* get_current_active_user with the is_active test left out
get_current_active_user_unchecked(current) == current

\* get_current_active_user: runs only on a user get_current_user returned
get_current_active_user(current) ==
    IF current.result.kind # "User"
    THEN current
    ELSE IF ~current.result.is_active
    THEN Outcome(HTTPException(400, INACTIVE_USER_MESSAGE), current.calls)
    ELSE current

\* the HTTP response FastAPI builds from what the route produced
Response(out) ==
    CASE out.kind = "HTTPException" ->
            [status |-> out.status, detail |-> out.detail, body |-> None]
      [] out.kind = "raise" ->
            [status |-> 500, detail |-> "Internal Server Error", body |-> None]
      [] OTHER ->
            [status |-> 200, detail |-> "", body |-> out]

(* ------------------------------- routes -------------------------------- *)

\* UserLogin(email: EmailStr, password: str): the parsed request body, or
\* the 422 FastAPI answers when validation fails
UserLogin(email, password) ==
    IF EmailStr(email).ok
    THEN [kind |-> "UserLogin", email |-> EmailStr(email).value, password |-> password]
    ELSE HTTPException(422, "value is not a valid email address")

\* login_for_access_token naming the user in "sub" by username
login_for_access_token_username_sub(user_login, db, utc_now) ==
    IF authenticate_user(db, user_login.email, user_login.password).kind = "raise"
    THEN authenticate_user(db, user_login.email, user_login.password)
    ELSE IF authenticate_user(db, user_login.email, user_login.password) = None
    THEN HTTPException(401, "Incorrect email or password")
    ELSE [kind |-> "Token",
          access_token |->
             create_access_token(
                 [k \in {"sub"} |->
                    Plain(authenticate_user(db, user_login.email,
                                            user_login.password).username)],
                 Given(ACCESS_TOKEN_EXPIRE_MINUTES * TicksPerMinute),
                 utc_now).token,
          token_type |-> "bearer"]

\* login_for_access_token, on a parsed body
login_for_access_token(user_login, db, utc_now) ==
    IF authenticate_user(db, user_login.email, user_login.password).kind = "raise"
    THEN authenticate_user(db, user_login.email, user_login.password)
    ELSE IF authenticate_user(db, user_login.email, user_login.password) = None
    THEN HTTPException(401, "Incorrect email or password")
    ELSE [kind |-> "Token",
          access_token |->
             create_access_token(
                 [k \in {"sub"} |->
                    authenticate_user(db, user_login.email, user_login.password).email],
                 Given(ACCESS_TOKEN_EXPIRE_MINUTES * TicksPerMinute),
                 utc_now).token,
          token_type |-> "bearer"]

\* get_current_user_info with its dependency chain
get_current_user_info(authorization, db, now) ==
    get_current_active_user(get_current_user(security(authorization), db, now))

(* -------------------------------- state -------------------------------- *)

VARIABLES
    now,             \* the clock, in ticks
    issued,          \* the token most recently handed out, with its issuance
    last,            \* the call most recently completed, with its result
    digests,         \* the calls of get_password_hash so far, in order: the
                     \* password and the digest returned
    inflight         \* the requests being handled, by worker

vars == << boot, fake_users_db, now, issued, last, digests, inflight >>

\* what the operations on a started process leave alone
rest == << boot, inflight >>

\* the process after main.py ran with no SECRET_KEY configured anywhere
Started ==
    [pc |-> "up", environ |-> EmptyDict, dotenv |-> EmptyDict,
     SECRET_KEY |-> FALLBACK_SECRET_KEY]

Issuance(token, data, expires_delta, at, expire) ==
    [token |-> token, data |-> data, expires_delta |-> expires_delta, at |-> at,
     expire |-> expire]

Hashing(password, digest) == [password |-> password, digest |-> digest]

(* ------------------------------- inputs -------------------------------- *)

\* request emails: the stored ones, case variants of them, an unknown one,
\* and texts that are no address
LoginEmails ==
    StoredEmails \cup
    { Email("ADMIN", "CYCLOVEDA.COM"), Email("admin", "CYCLOVEDA.COM"),
      Email("nonexistent", "example.com"),
      Plain("invalid-email-format"), Plain("") }

LoginPasswords == {"password", "wrongpassword", ""}

\* sub claims a token may carry
Subjects ==
    StoredEmails \cup
    { Email("admin", "CYCLOVEDA.COM"), Email("ADMIN", "cycloveda.com"),
      Email("nonexistent", "example.com"),
      Plain("invalid-email-format"), Number("123") }

\* the dicts handed to create_access_token
DataDicts ==
    { [k \in {"sub"} |-> AdminEmail],
      [k \in {"sub"} |-> Email("admin", "CYCLOVEDA.COM")],
      [k \in {"sub"} |-> Plain("invalid-email-format")],
      [k \in {"user_id"} |-> Plain("123")],
      [k \in {"sub", "scopes"} |-> IF k = "sub" THEN UserEmail ELSE << "read" >>] }

\* expires_delta: absent, zero, a tick either way, a second back, a lifetime
Deltas ==
    { Unset, Given(0), Given(-1), Given(1), Given(-TicksPerSecond),
      Given(ACCESS_TOKEN_EXPIRE_MINUTES * TicksPerMinute) }

\* exp claims (whole seconds) of tokens minted outside create_access_token
MintedExp == {1}

\* tokens signed with jose directly, as the test fixtures do: any subject
\* or none, with an expiry or none, and one under a key that is not ours
Minted ==
    { jws_sign([k \in {"sub", "exp"} |-> IF k = "sub" THEN s ELSE e], SECRET_KEY, ALGORITHM) :
        s \in Subjects, e \in MintedExp }
    \cup { jws_sign([k \in {"sub", "exp"} |-> IF k = "sub" THEN AdminEmail ELSE e],
                    FOREIGN_KEY, ALGORITHM) : e \in MintedExp }
    \cup { jws_sign([k \in {"exp"} |-> e], SECRET_KEY, ALGORITHM) : e \in MintedExp }
    \cup { jws_sign([k \in {"sub"} |-> AdminEmail], SECRET_KEY, ALGORITHM) }

\* "", "header.payload", "invalid.token.here", "header.payload.signature.extra"
Malformed ==
    { [segments |-> << >>],
      [segments |-> << Garbage("header"), Garbage("payload") >>],
      [segments |-> << Garbage("invalid"), Garbage("token"), Garbage("here") >>],
      [segments |-> << Garbage("header"), Garbage("payload"), Garbage("signature"),
                       Garbage("extra") >>] }

\* token t with one character of its signature segment changed: other MAC
\* bytes, or the same bytes with other surplus bits in the last character
TamperSignature(t) ==
    { [segments |-> << t.segments[1], t.segments[2],
                       SigSeg([t.segments[3].mac EXCEPT !.flip = f], p) >>] :
        f \in {0, 1}, p \in 0..PadMax }
    \ {t}

\* token t with its header naming another algorithm, or a segment appended,
\* or the signature cut off
Reshape(t) ==
    { [segments |-> << HeaderSeg("none"), t.segments[2], t.segments[3] >>],
      [segments |-> Append(t.segments, Garbage("extra"))],
      [segments |-> << t.segments[1], t.segments[2] >>] }

\* the passwords hashed and verified: those of the tests, the empty one, a
\* long one and its first 72 characters
HashPasswords == {"testpassword123", "", LongPassword, "a * 72"}

VerifyPasswords == HashPasswords \cup {"wrongpassword"}

\* the digests handed to verify_password: those the process made, "", "hash"
VerifyDigests ==
    { digests[i].digest : i \in 1..Len(digests) } \cup { NotAHash(""), NotAHash("hash") }

\* what a client can present: the token it holds, changed or not, a minted
\* token, or text that is no token
Presentable ==
    { i.token : i \in issued }
    \cup UNION { TamperSignature(i.token) : i \in issued }
    \cup UNION { Reshape(i.token) : i \in issued }
    \cup Minted \cup Malformed

\* Authorization headers: none, "Bearer", "invalid_format_token", and a
\* scheme word followed by a token
Headers ==
    { NoHeader, BareHeader("Bearer"), BareHeader("invalid_format_token") }
    \cup { Header("Bearer", t) : t \in Presentable }
    \cup { Header(sch, i.token) : sch \in {"bearer", "NotBearer"}, i \in issued }
    \cup { Header("NotBearer", [segments |-> << Garbage("token") >>]) }

(* ------------------------------- actions ------------------------------- *)

Init ==
    /\ fake_users_db \in StoreSnapshots
    /\ now = 0
    /\ issued = {}
    /\ last = [op |-> "none"]
    /\ digests = << Hashing("password", get_password_hash("password", 0)) >>
    /\ boot = Started
    /\ inflight = << >>

\* time passes by one tick (observed near the minute marks only)
Tick ==
    /\ now % JumpStep <= Window
    /\ now' = now + 1
    /\ UNCHANGED << fake_users_db, issued, last, digests, rest >>

\* time passes by nearly an access token lifetime
Jump ==
    /\ now + JumpStep <= MaxTime
    /\ now' = now + JumpStep
    /\ UNCHANGED << fake_users_db, issued, last, digests, rest >>

\* POST /auth/login
Login ==
    \E email \in LoginEmails, password \in LoginPasswords :
      LET body == UserLogin(email, password)
          out == IF body.kind = "UserLogin"
                 THEN login_for_access_token(body, fake_users_db, now)
                 ELSE body
      IN  /\ last' = [op |-> "login", at |-> now, email |-> email,
                      password |-> password, response |-> Response(out)]
          /\ issued' = IF out.kind = "Token"
                       THEN { Issuance(out.access_token,
                                       [k \in {"sub"} |-> body.email],
                                       Given(ACCESS_TOKEN_EXPIRE_MINUTES * TicksPerMinute),
                                       now,
                                       now + ACCESS_TOKEN_EXPIRE_MINUTES * TicksPerMinute) }
                       ELSE issued
          /\ fake_users_db' = IF body.kind = "UserLogin"
                              THEN authenticate_user_store(fake_users_db, body.email,
                                                           body.password)
                              ELSE fake_users_db
          /\ UNCHANGED << now, digests, rest >>

\* GET /auth/me
Me ==
    \E authorization \in Headers :
      LET out == get_current_user_info(authorization, fake_users_db, now)
      IN  /\ last' = [op |-> "me", at |-> now, authorization |-> authorization,
                      response |-> Response(out.result), calls |-> out.calls]
          /\ UNCHANGED << fake_users_db, now, issued, digests, rest >>

\* AuthService.create_access_token called directly
CallCreateAccessToken ==
    \E data \in DataDicts, expires_delta \in Deltas :
      LET r == create_access_token(data, expires_delta, now)
      IN  /\ last' = [op |-> "create_access_token", at |-> now, data |-> data,
                      expires_delta |-> expires_delta, token |-> r.token,
                      expire |-> r.expire, data_after |-> r.data_after]
          /\ issued' = { Issuance(r.token, data, expires_delta, now, r.expire) }
          /\ UNCHANGED << fake_users_db, now, digests, rest >>

\* AuthService.verify_token called directly
CallVerifyToken ==
    \E token \in Presentable :
      /\ last' = [op |-> "verify_token", at |-> now, token |-> token,
                  result |-> verify_token(token, now),
                  held |-> token \in { i.token : i \in issued }]
      /\ UNCHANGED << fake_users_db, now, issued, digests, rest >>

\* AuthService.get_user called directly
CallGetUser ==
    \E email \in LoginEmails :
      /\ last' = [op |-> "get_user", at |-> now, email |-> email,
                  result |-> get_user(fake_users_db, email)]
      /\ UNCHANGED << fake_users_db, now, issued, digests, rest >>

\* AuthService.authenticate_user called directly
CallAuthenticateUser ==
    \E email \in LoginEmails, password \in LoginPasswords :
      /\ last' = [op |-> "authenticate_user", at |-> now, email |-> email,
                  password |-> password,
                  result |-> authenticate_user(fake_users_db, email, password),
                  calls |-> authenticate_user_calls(fake_users_db, email, password)]
      /\ fake_users_db' = authenticate_user_store(fake_users_db, email, password)
      /\ UNCHANGED << now, issued, digests, rest >>

\* AuthService.get_password_hash called directly
CallGetPasswordHash ==
    /\ Len(digests) <= MaxHashes
    /\ \E password \in HashPasswords,
          salt \in gensalt({ digests[i].digest.salt : i \in 1..Len(digests) }) :
         /\ digests' = Append(digests,
                              Hashing(password, get_password_hash(password, salt)))
         /\ last' = [op |-> "get_password_hash", at |-> now, password |-> password,
                     result |-> get_password_hash(password, salt)]
    /\ UNCHANGED << fake_users_db, now, issued, rest >>

\* AuthService.verify_password called directly
CallVerifyPassword ==
    \E plain_password \in VerifyPasswords, hashed_password \in VerifyDigests :
      /\ last' = [op |-> "verify_password", at |-> now,
                  plain_password |-> plain_password,
                  hashed_password |-> hashed_password,
                  result |-> verify_password(plain_password, hashed_password)]
      /\ UNCHANGED << fake_users_db, now, issued, digests, rest >>

Next == Tick \/ Jump \/ Login \/ Me

Spec == Init /\ [][Next]_vars

\* the token codec on its own: the seeded store, tokens made and verified
\* through the service
CodecInit ==
    /\ fake_users_db = SeededStore
    /\ now = 0
    /\ issued = {}
    /\ last = [op |-> "none"]
    /\ digests = << Hashing("password", get_password_hash("password", 0)) >>
    /\ boot = Started
    /\ inflight = << >>

CodecNext == Tick \/ Jump \/ CallCreateAccessToken \/ CallVerifyToken

CodecSpec == CodecInit /\ [][CodecNext]_vars

\* SECRET_KEY as the process environment or the .env file may set it
Environs == { EmptyDict, [k \in {"SECRET_KEY"} |-> "environ-secret"] }

DotenvFiles == { EmptyDict, [k \in {"SECRET_KEY"} |-> "dotenv-secret"] }

\* python main.py begins: nothing is imported yet
StartupInit ==
    /\ boot \in { [pc |-> "main", environ |-> environ, dotenv |-> dotenv,
                   SECRET_KEY |-> "unbound"] :
                    environ \in Environs, dotenv \in DotenvFiles }
    /\ fake_users_db = EmptyDict
    /\ now = 0
    /\ issued = {}
    /\ last = [op |-> "none"]
    /\ digests = << >>
    /\ inflight = << >>

\* main.py "from app.routers import auth": auth_service is executed, reads
\* SECRET_KEY from the environment and seeds the store
ImportAuthService ==
    /\ boot.pc = "main"
    /\ boot' = [boot EXCEPT !.pc = "imported",
                            !.SECRET_KEY = getenv(boot.environ, "SECRET_KEY",
                                                  FALLBACK_SECRET_KEY)]
    /\ fake_users_db' = SeededStore
    /\ digests' = << Hashing("password", get_password_hash("password", 0)) >>
    /\ UNCHANGED << now, issued, last, inflight >>

\* main.py "load_dotenv()", after the imports
LoadDotenv ==
    /\ boot.pc = "imported"
    /\ boot' = [boot EXCEPT !.pc = "up",
                            !.environ = load_dotenv(boot.environ, boot.dotenv)]
    /\ UNCHANGED << fake_users_db, now, issued, last, digests, inflight >>

StartupNext ==
    \/ ImportAuthService
    \/ LoadDotenv
    \/ (boot.pc = "up" /\ CallCreateAccessToken)
    \/ (boot.pc = "up" /\ CallVerifyToken)

StartupSpec == StartupInit /\ [][StartupNext]_vars

(* ------------------------ the Strava OAuth callback -------------------- *)

\* Optional[str] = Query(None): the parameter is absent, or present with a
\* text that may be empty
Absent == [present |-> FALSE, text |-> ""]

Param(text) == [present |-> TRUE, text |-> text]

\* bool(x) of an Optional[str]
truthy(param) == param.present /\ param.text # ""

\* strava.FRONTEND_URL as the f-strings print it
FRONTEND_URL == getenv(boot.environ, "FRONTEND_URL", "None")

\* f"{FRONTEND_URL}/settings?..."
settings_url(query) ==
    [base |-> FRONTEND_URL, path |-> "/settings", query |-> query]

RedirectResponse(url, status_code) ==
    [kind |-> "RedirectResponse", status |-> status_code, location |-> url]

\* what the POST to https://www.strava.com/oauth/token comes to
StravaResponse(status_code, json, keys) ==
    [kind |-> "response", status_code |-> status_code, json |-> json,
     keys |-> keys]

NotAsked == [kind |-> "none"]

StravaReplies ==
    { StravaResponse(200, "object",
                     {"access_token", "refresh_token", "expires_at"}),
      StravaResponse(200, "object", {"message", "errors"}),
      StravaResponse(200, "null", {}),
      StravaResponse(200, "invalid", {}),
      StravaResponse(401, "object", {"message", "errors"}),
      Raise("ConnectError") }

\* exchange_code_for_tokens, given what the POST comes to
exchange_code_for_tokens(code, reply) ==
    IF reply.kind = "raise" THEN reply
    ELSE IF reply.status_code # 200 THEN Raise("Exception")
    ELSE IF reply.json = "invalid" THEN Raise("JSONDecodeError")
    ELSE IF reply.json # "object" THEN Raise("TypeError")
    ELSE IF "access_token" \notin reply.keys THEN Raise("Exception")
    ELSE [kind |-> "tokens", keys |-> reply.keys]

\* the callback that tests the code before the error
strava_callback_code_first(error, code, reply) ==
    IF ~truthy(code)
    THEN [exchanged |-> FALSE,
          response |-> RedirectResponse(settings_url("error=strava_no_code"),
                                        302)]
    ELSE IF truthy(error)
    THEN [exchanged |-> FALSE,
          response |-> RedirectResponse(
                          settings_url("error=strava_auth_failed"), 302)]
    ELSE LET tokens == exchange_code_for_tokens(code.text, reply) IN
         IF tokens.kind = "raise"
         THEN [exchanged |-> TRUE,
               response |-> RedirectResponse(
                     settings_url("error=strava_token_exchange_failed"), 302)]
         ELSE [exchanged |-> TRUE,
               response |-> RedirectResponse(
                     settings_url("strava_connected=true"), 302)]

\* strava_callback: the response, and whether exchange_code_for_tokens was
\* called
strava_callback(error, code, reply) ==
    IF truthy(error)
    THEN [exchanged |-> FALSE,
          response |-> RedirectResponse(
                          settings_url("error=strava_auth_failed"), 302)]
    ELSE IF ~truthy(code)
    THEN [exchanged |-> FALSE,
          response |-> RedirectResponse(settings_url("error=strava_no_code"),
                                        302)]
    ELSE LET tokens == exchange_code_for_tokens(code.text, reply) IN
         IF tokens.kind = "raise"
         THEN [exchanged |-> TRUE,
               response |-> RedirectResponse(
                     settings_url("error=strava_token_exchange_failed"), 302)]
         ELSE [exchanged |-> TRUE,
               response |-> RedirectResponse(
                     settings_url("strava_connected=true"), 302)]

\* the query parameters Strava, or anyone, may send
ErrorParams == { Absent, Param(""), Param("access_denied") }

CodeParams == { Absent, Param(""), Param("abc123") }

StateParams == { Absent, Param("xyz") }

ScopeParams == { Absent, Param("read,activity:read_all") }

\* the process with and without FRONTEND_URL in its environment
StravaInit ==
    /\ boot \in { Started,
                  [Started EXCEPT !.environ =
                      [k \in {"FRONTEND_URL"} |-> "http://localhost:5173"]] }
    /\ fake_users_db = SeededStore
    /\ now = 0
    /\ issued = {}
    /\ last = [op |-> "none"]
    /\ digests = << Hashing("password", get_password_hash("password", 0)) >>
    /\ inflight = << >>

\* GET /strava/callback
StravaCallback ==
    \E state \in StateParams, code \in CodeParams, scope \in ScopeParams,
       error \in ErrorParams, reply \in StravaReplies :
        LET out == strava_callback(error, code, reply) IN
        /\ last' = [op |-> "strava_callback", state |-> state, code |-> code,
                    scope |-> scope, error |-> error,
                    reply |-> IF out.exchanged THEN reply ELSE NotAsked,
                    exchanged |-> out.exchanged, response |-> out.response]
        /\ UNCHANGED << fake_users_db, now, issued, digests, rest >>

StravaNext == StravaCallback

StravaSpec == StravaInit /\ [][StravaNext]_vars

(* ---------------------- requests handled concurrently ----------------- *)

\* the workers that handle requests side by side
Workers == {"w1", "w2"}

Idle == [kind |-> "idle", pc |-> "idle"]

\* POST /auth/login as it arrives
LoginRequest(email, password) ==
    [kind |-> "login", pc |-> "UserLogin", email |-> email,
     password |-> password, at |-> 0, held |-> None, response |-> None]

\* GET /auth/me as it arrives
MeRequest(authorization) ==
    [kind |-> "me", pc |-> "security", authorization |-> authorization,
     at |-> 0, held |-> None, response |-> None]

\* the request answered: nothing is left to run
Done(request, out) ==
    [request EXCEPT !.pc = "done", !.held = None, !.response = Response(out)]

\* the request goes on to its next call with the value it holds
Goto(request, pc, held) == [request EXCEPT !.pc = pc, !.held = held]

\* a token that expires while the requests are handled, as the fixtures
\* make them
ShortLivedToken(sub) ==
    jws_sign([k \in {"sub", "exp"} |-> IF k = "sub" THEN sub ELSE 0],
             SECRET_KEY, ALGORITHM)

ConcurrentRequests ==
    { LoginRequest(AdminEmail, "password"),
      LoginRequest(AdminEmail, "wrongpassword"),
      LoginRequest(Email("nonexistent", "example.com"), "password"),
      LoginRequest(Plain("invalid-email-format"), "password"),
      MeRequest(NoHeader),
      MeRequest(Header("Bearer", ShortLivedToken(AdminEmail))),
      MeRequest(Header("Bearer", ShortLivedToken(Email("nonexistent", "example.com")))),
      MeRequest(Header("Bearer",
                       [segments |-> << Garbage("invalid"), Garbage("token"),
                                        Garbage("here") >>])) }

ConcInit ==
    /\ fake_users_db = SeededStore
    /\ now = 0
    /\ issued = {}
    /\ last = [op |-> "none"]
    /\ digests = << Hashing("password", get_password_hash("password", 0)) >>
    /\ boot = Started
    /\ inflight = [w \in Workers |-> Idle]

\* a request reaches a free worker
Arrive ==
    \E w \in Workers, request \in ConcurrentRequests :
        /\ inflight[w].pc = "idle"
        /\ inflight' = [inflight EXCEPT ![w] = request]
        /\ UNCHANGED << boot, fake_users_db, now, issued, last, digests >>

\* FastAPI validates the login body as UserLogin
ParseBody ==
    \E w \in Workers :
        LET r == inflight[w]
            body == UserLogin(r.email, r.password)
        IN  /\ r.pc = "UserLogin"
            /\ inflight' = [inflight EXCEPT ![w] =
                              IF body.kind = "UserLogin"
                              THEN Goto(r, "get_user", body)
                              ELSE Done(r, body)]
            /\ UNCHANGED << boot, fake_users_db, now, issued, last, digests >>

\* authenticate_user: user = AuthService.get_user(email)
LoginGetUser ==
    \E w \in Workers :
        LET r == inflight[w]
            user == get_user(fake_users_db, r.held.email)
        IN  /\ r.kind = "login"
            /\ r.pc = "get_user"
            /\ inflight' = [inflight EXCEPT ![w] =
                  IF user = None
                  THEN Done(r, HTTPException(401, "Incorrect email or password"))
                  ELSE Goto(r, "verify_password",
                            [email |-> r.held.email, password |-> r.held.password,
                             user |-> user])]
            /\ UNCHANGED << boot, fake_users_db, now, issued, last, digests >>

\* authenticate_user: user_dict = fake_users_db[email]; verify_password
LoginVerifyPassword ==
    \E w \in Workers :
        LET r == inflight[w]
            ok == IF r.held.email \in DOMAIN fake_users_db
                  THEN verify_password(r.held.password,
                                       fake_users_db[r.held.email].hashed_password)
                  ELSE Raise("KeyError")
        IN  /\ r.kind = "login"
            /\ r.pc = "verify_password"
            /\ inflight' = [inflight EXCEPT ![w] =
                  IF ok.kind = "raise"
                  THEN Done(r, ok)
                  ELSE IF ~ok.value
                  THEN Done(r, HTTPException(401, "Incorrect email or password"))
                  ELSE Goto(r, "create_access_token", r.held.user)]
            /\ fake_users_db' = authenticate_user_store(fake_users_db, r.held.email,
                                                        r.held.password)
            /\ UNCHANGED << boot, now, issued, last, digests >>

\* login_for_access_token: create_access_token reads the clock and signs
LoginCreateToken ==
    \E w \in Workers :
        LET r == inflight[w]
            made == create_access_token(
                        [k \in {"sub"} |-> r.held.email],
                        Given(ACCESS_TOKEN_EXPIRE_MINUTES * TicksPerMinute), now)
        IN  /\ r.kind = "login"
            /\ r.pc = "create_access_token"
            /\ inflight' = [inflight EXCEPT ![w] =
                  Done([r EXCEPT !.at = now],
                       [kind |-> "Token", access_token |-> made.token,
                        token_type |-> "bearer"])]
            /\ UNCHANGED << boot, fake_users_db, now, issued, last, digests >>

\* get_current_user: the credentials of security and the tests before
\* verify_token
MeSecurity ==
    \E w \in Workers :
        LET r == inflight[w]
            credentials == security(r.authorization)
        IN  /\ r.pc = "security"
            /\ inflight' = [inflight EXCEPT ![w] =
                  IF credentials = None
                  THEN Done(r, credentials_exception("Missing Authorization header"))
                  ELSE IF Lower(credentials.scheme) # Lower(AUTH_SCHEME)
                  THEN Done(r, credentials_exception(
                                  "Invalid authentication scheme. Expected: Bearer"))
                  ELSE Goto(r, "verify_token", credentials)]
            /\ UNCHANGED << boot, fake_users_db, now, issued, last, digests >>

\* get_current_user: verify_token reads the clock
MeVerifyToken ==
    \E w \in Workers :
        LET r == inflight[w]
            token_data == verify_token(r.held.credentials, now)
        IN  /\ r.pc = "verify_token"
            /\ inflight' = [inflight EXCEPT ![w] =
                  IF token_data.kind = "raise"
                  THEN Done([r EXCEPT !.at = now], token_data)
                  ELSE IF token_data = None
                  THEN Done([r EXCEPT !.at = now],
                            credentials_exception("Invalid or expired token"))
                  ELSE Goto([r EXCEPT !.at = now], "get_user", token_data)]
            /\ UNCHANGED << boot, fake_users_db, now, issued, last, digests >>

\* get_current_user: user = AuthService.get_user(email=token_data.email)
MeGetUser ==
    \E w \in Workers :
        LET r == inflight[w]
            user == get_user(fake_users_db, r.held.email)
        IN  /\ r.kind = "me"
            /\ r.pc = "get_user"
            /\ inflight' = [inflight EXCEPT ![w] =
                  IF user = None
                  THEN Done(r, credentials_exception("User not found"))
                  ELSE Goto(r, "get_current_active_user", user)]
            /\ UNCHANGED << boot, fake_users_db, now, issued, last, digests >>

\* get_current_active_user and the route body
MeActive ==
    \E w \in Workers :
        LET r == inflight[w]
        IN  /\ r.pc = "get_current_active_user"
            /\ inflight' = [inflight EXCEPT ![w] =
                  Done(r, get_current_active_user(Outcome(r.held, << >>)).result)]
            /\ UNCHANGED << boot, fake_users_db, now, issued, last, digests >>

\* the response is sent and the worker is free again
Respond ==
    \E w \in Workers :
        /\ inflight[w].pc = "done"
        /\ inflight' = [inflight EXCEPT ![w] = Idle]
        /\ UNCHANGED << boot, fake_users_db, now, issued, last, digests >>

ConcNext ==
    \/ Tick
    \/ Arrive
    \/ ParseBody
    \/ LoginGetUser
    \/ LoginVerifyPassword
    \/ LoginCreateToken
    \/ MeSecurity
    \/ MeVerifyToken
    \/ MeGetUser
    \/ MeActive
    \/ Respond

ConcSpec == ConcInit /\ [][ConcNext]_vars

\* every operation that is given the store or runs beside it, at one clock
\* reading
ServiceNext ==
    \/ CallGetUser
    \/ CallAuthenticateUser
    \/ Login
    \/ Me
    \/ CallCreateAccessToken
    \/ CallVerifyToken

ServiceSpec == Init /\ [][ServiceNext]_vars

\* the password operations on their own
PasswordNext == CallGetPasswordHash \/ CallVerifyPassword

PasswordSpec == CodecInit /\ [][PasswordNext]_vars

(* ======================= properties of the guard ======================= *)

\* the vocabulary of the properties, stated on the token text itself

WellFormed(t) ==
    /\ Len(t.segments) = 3
    /\ t.segments[1].kind = "header"
    /\ t.segments[2].kind = "payload"
    /\ t.segments[3].kind = "signature"

ClaimsOf(t) == t.segments[2].claims

\* the signature bytes are the process key's HS256 MAC of header and payload
SignedByUs(t) ==
    /\ WellFormed(t)
    /\ t.segments[1].alg = "HS256"
    /\ t.segments[3].mac.flip = 0
    /\ t.segments[3].mac.key = SECRET_KEY
    /\ t.segments[3].mac.alg = "HS256"
    /\ t.segments[3].mac.claims = ClaimsOf(t)

\* the whole second of the verification time is not after exp
UnexpiredAt(t, at) ==
    Has(ClaimsOf(t), "exp") => at \div TicksPerSecond <= ClaimsOf(t)["exp"]

HasAddressSubject(t) ==
    /\ Has(ClaimsOf(t), "sub")
    /\ ClaimsOf(t)["sub"].isstr
    /\ ClaimsOf(t)["sub"].at
    /\ ClaimsOf(t)["sub"].local # ""
    /\ ClaimsOf(t)["sub"].domain # ""

\* address s names the mailbox stored under key e (domains are compared
\* without regard to letter case)
SameMailbox(s, e) ==
    s.isstr /\ s.at /\ s.local = e.local /\ Lower(s.domain) = Lower(e.domain)

\* the request carries "Bearer <token>" (the scheme word in any letter case)
CarriesBearer(h) == h.present /\ h.has_param /\ h.scheme \in {"Bearer", "bearer"}

ValidTokenAt(t, at) == SignedByUs(t) /\ UnexpiredAt(t, at) /\ HasAddressSubject(t)

\* the stored keys the token's subject resolves to
ResolvedKeys(t, db) == { e \in DOMAIN db : SameMailbox(ClaimsOf(t)["sub"], e) }

MeDone == last.op = "me"

\* C1: GET /auth/me answers 200 if and only if the request carries a Bearer
\* token that is signature-valid and unexpired, whose subject resolves to a
\* stored record with the active flag set; and the user in the body is the
\* one whose email equals the token's subject.
C1_CurrentUserIffValidActive ==
    MeDone =>
      /\ (last.response.status = 200) <=>
            /\ CarriesBearer(last.authorization)
            /\ ValidTokenAt(last.authorization.token, last.at)
            /\ \E e \in ResolvedKeys(last.authorization.token, fake_users_db) :
                  fake_users_db[e].is_active
      /\ (last.response.status = 200) =>
            last.response.body.email = ClaimsOf(last.authorization.token)["sub"]

\* C2: GET /auth/me answers 400 "Inactive user" exactly when the token is
\* valid and resolves to a stored user whose active flag is false; 400 is
\* produced in no other case, so never without a valid token.
C2_InactiveOnlyAfterValidToken ==
    MeDone =>
      /\ (last.response.status = 400) <=>
            /\ CarriesBearer(last.authorization)
            /\ ValidTokenAt(last.authorization.token, last.at)
            /\ \E e \in ResolvedKeys(last.authorization.token, fake_users_db) :
                  ~fake_users_db[e].is_active
      /\ (last.response.status = 400) <=> (last.response.detail = "Inactive user")
      /\ (last.response.status = 400) => last.calls = << "verify_token", "get_user" >>

\* a valid token of the deactivated admin was presented and answered 400
C2_Witness ==
    /\ MeDone
    /\ last.response.status = 400
    /\ ~fake_users_db[AdminEmail].is_active
    /\ ValidTokenAt(last.authorization.token, last.at)

\* C3: a header with another scheme word than Bearer is rejected with 401
\* and the reason "Invalid authentication scheme. Expected: Bearer", which
\* is not the reason given when the header is missing.
C3_WrongSchemeHasItsOwnReason ==
    (MeDone /\ last.authorization.present /\ last.authorization.has_param
            /\ Lower(last.authorization.scheme) # "bearer") =>
      /\ last.response.status = 401
      /\ last.response.detail = "Invalid authentication scheme. Expected: Bearer"
      /\ last.response.detail # "Missing Authorization header"

\* C4: without an Authorization header GET /auth/me answers 401 "Missing
\* Authorization header", and neither verify_token nor get_user is called.
C4_MissingHeaderRejectedEarly ==
    (MeDone /\ ~last.authorization.present) =>
      /\ last.response.status = 401
      /\ last.response.detail = "Missing Authorization header"
      /\ last.calls = << >>

C4_Witness == MeDone /\ ~last.authorization.present /\ last.response.status = 401

\* C5: a Bearer token that does not resolve (malformed, bad signature,
\* expired, or a subject that is no key of the store) is answered 401, and
\* never with a server error.
C5_UnresolvableTokenIs401 ==
    (MeDone /\ CarriesBearer(last.authorization)
            /\ ~(/\ ValidTokenAt(last.authorization.token, last.at)
                 /\ ResolvedKeys(last.authorization.token, fake_users_db) # {})) =>
      last.response.status = 401

(* ===================== properties of the token codec =================== *)

VerifyDone == last.op = "verify_token"

\* the issuances of the token that was verified, when it is the held one
VerifiedIssuances ==
    IF VerifyDone /\ last.held THEN { i \in issued : i.token = last.token } ELSE {}

\* the signature segment is not, character for character, the one that
\* signing header and payload with the process key yields
SignatureTextChanged(t) ==
    /\ WellFormed(t)
    /\ t.segments[3] # SigSeg([key |-> SECRET_KEY, alg |-> t.segments[1].alg,
                              claims |-> ClaimsOf(t), flip |-> 0], 0)

\* the whole second of the verification time is after exp
ExpiredAt(t, at) ==
    WellFormed(t) /\ Has(ClaimsOf(t), "exp") /\ ClaimsOf(t)["exp"] < at \div TicksPerSecond

MissingSubject(t) == WellFormed(t) /\ ~Has(ClaimsOf(t), "sub")

\* C6: verify_token returns None for a malformed token, for any
\* change of a character of the signature segment, for expired claims and
\* for claims without a subject.
C6_EveryRejectionCauseIsNone ==
    (VerifyDone /\ (\/ ~WellFormed(last.token)
                    \/ SignatureTextChanged(last.token)
                    \/ ExpiredAt(last.token, last.at)
                    \/ MissingSubject(last.token))) =>
      last.result = None

\* the tokens C7 is about: signed by the process key, with a string subject
\* and an exp claim
BoundaryCase ==
    /\ VerifyDone
    /\ SignedByUs(last.token)
    /\ Has(ClaimsOf(last.token), "sub")
    /\ ClaimsOf(last.token)["sub"].isstr
    /\ Has(ClaimsOf(last.token), "exp")

\* C7: a token is accepted only while now < exp and rejected
\* whenever now >= exp.
C7_ExclusiveBound ==
    BoundaryCase =>
      ((last.result = None) <=>
         (last.at >= ClaimsOf(last.token)["exp"] * TicksPerSecond))

\* C8: a token made by create_access_token whose expiry lies in
\* the past at verification time, by however little, verifies to None.
C8_PastByOneTick ==
    \A i \in VerifiedIssuances :
       i.expire < last.at => last.result = None

\* the claims C9 is about: an address as subject, the expiry in the future
RoundTrips ==
    { i \in VerifiedIssuances :
        Has(i.data, "sub") /\ IsEmailSyntax(i.data["sub"]) /\ i.expire > last.at }

\* C9: decoding returns the claims that were encoded: the same
\* subject, the same scopes, the same expiry instant.
C9_RoundTripIdentity ==
    \A i \in RoundTrips :
       /\ last.result.kind = "TokenData"
       /\ last.result.email = i.data["sub"]
       /\ last.result.scopes = IF Has(i.data, "scopes") THEN i.data["scopes"] ELSE << >>
       /\ last.result.exp = Given(i.expire)

\* C10: the expiry is issue time + ttl whenever a ttl is given (positive,
\* negative or zero) and issue time + 15 minutes only when none is given;
\* the caller's dict is unchanged.
C10_ExpiryFromEveryGivenTtl ==
    last.op = "create_access_token" =>
      /\ last.expires_delta.given =>
            last.expire = last.at + last.expires_delta.ticks
      /\ ~last.expires_delta.given =>
            last.expire = last.at + DEFAULT_TOKEN_EXPIRE_MINUTES * TicksPerMinute
      /\ ClaimsOf(last.token)["exp"] = last.expire \div TicksPerSecond
      /\ last.data_after = last.data

(* =================== properties of the user operations ================= *)

AuthenticateDone == last.op = "authenticate_user"

LoginDone == last.op = "login"

\* the password is the one the stored digest was made from
MatchesStoredHash(password, hashed_password) ==
    /\ hashed_password.scheme = "bcrypt"
    /\ hashed_password.pw = password

\* the fields of the User model
UserFields == {"kind", "email", "username", "is_active", "roles"}

C12_InactiveUserGetsToken ==
    /\ (LoginDone /\ last.email \in DOMAIN fake_users_db
                  /\ ~fake_users_db[last.email].is_active
                  /\ last.password = "password") =>
          /\ last.response.status = 200
          /\ last.response.body.kind = "Token"
          /\ ClaimsOf(last.response.body.access_token)["sub"] = last.email
    /\ \A i \in issued :
          (MeDone /\ last.authorization = Header("Bearer", i.token)
                  /\ last.at < i.expire
                  /\ ~fake_users_db[i.data["sub"]].is_active) =>
             /\ last.response.status = 400
             /\ last.response.detail = INACTIVE_USER_MESSAGE

\* the token a deactivated admin was issued at login was presented, and
\* stopped by the guard
C12_Witness ==
    /\ MeDone
    /\ AdminEmail \in DOMAIN fake_users_db
    /\ ~fake_users_db[AdminEmail].is_active
    /\ \E i \in issued :
          /\ i.data["sub"] = AdminEmail
          /\ last.authorization = Header("Bearer", i.token)
    /\ last.response.status = 400

\* the request email is no stored key but differs from one in letter case
\* only
CaseVariantOfStoredKey(email) ==
    /\ email \notin DOMAIN fake_users_db
    /\ \E e \in DOMAIN fake_users_db :
          /\ email.isstr /\ email.at
          /\ Lower(email.local) = Lower(e.local)
          /\ Lower(email.domain) = Lower(e.domain)

\* C13: a login whose email differs from a stored key only in letter case,
\* in the local part or in the domain, is answered 401 also with the right
\* password.
C13_LoginIsCaseSensitive ==
    (LoginDone /\ CaseVariantOfStoredKey(last.email)) =>
      last.response.status = 401

\* C18: login with a stored email and its password answers 200 with
\* token_type "bearer" and a token of three segments whose subject is that
\* email and whose expiry is ACCESS_TOKEN_EXPIRE_MINUTES after issuance; any
\* other credentials are answered 401 and no token.
C18_LoginContract ==
    LoginDone =>
      IF /\ last.email \in DOMAIN fake_users_db
         /\ MatchesStoredHash(last.password, fake_users_db[last.email].hashed_password)
      THEN /\ last.response.status = 200
           /\ last.response.body.kind = "Token"
           /\ last.response.body.token_type = "bearer"
           /\ WellFormed(last.response.body.access_token)
           /\ ClaimsOf(last.response.body.access_token)["sub"] = last.email
           /\ ClaimsOf(last.response.body.access_token)["exp"] =
                 (last.at + ACCESS_TOKEN_EXPIRE_MINUTES * TicksPerMinute)
                    \div TicksPerSecond
      ELSE /\ last.response.status = 401
           /\ last.response.body = None

\* C19: with the seeded store, the token a login returned, presented to
\* GET /auth/me at any time before its expiry, is answered 200 with the
\* email of the user who logged in.
C19_LoginThenMe ==
    \A i \in issued :
       (MeDone /\ fake_users_db = SeededStore
               /\ last.authorization = Header("Bearer", i.token)
               /\ last.at < i.expire) =>
          /\ last.response.status = 200
          /\ last.response.body.email = i.data["sub"]
          /\ last.response.body.email \in StoredEmails

\* the token of a login was presented one tick before its expiry
C19_Witness ==
    /\ MeDone
    /\ fake_users_db = SeededStore
    /\ \E i \in issued :
          /\ last.authorization = Header("Bearer", i.token)
          /\ last.at = i.expire - 1
          /\ last.at > i.at
    /\ last.response.status = 200

\* C17: every user object the service or a route hands out has exactly the
\* fields email, username, is_active and roles (and the login body has the
\* token and its type only): no hashed_password, timestamp or superuser
\* flag of the record is in it.
C17_OnlySafeFieldsLeave ==
    /\ (last.op \in {"get_user", "authenticate_user"} /\ last.result # None) =>
          DOMAIN last.result = UserFields
    /\ (MeDone /\ last.response.status = 200) =>
          DOMAIN last.response.body = UserFields
    /\ (LoginDone /\ last.response.status = 200) =>
          DOMAIN last.response.body = {"kind", "access_token", "token_type"}

\* a stored user authenticated and a User was returned
C17_Witness ==
    /\ AuthenticateDone
    /\ last.email \in DOMAIN fake_users_db
    /\ last.result # None
    /\ "hashed_password" \in DOMAIN fake_users_db[last.email]

\* C20: no call changes the store: every step of login, current-user,
\* authenticate_user, get_user, create_access_token and verify_token, failed
\* or not, leaves fake_users_db as it was.
C20_StoreIsReadOnly == [][fake_users_db' = fake_users_db]_vars

\* a login was turned away
C20_Witness ==
    /\ LoginDone
    /\ last.email \in DOMAIN fake_users_db
    /\ last.password = "wrongpassword"
    /\ last.response.status = 401

(* ================= properties of the password operations =============== *)

VerifyPasswordDone == last.op = "verify_password"

\* C14: verify_password never raises: for a digest that is malformed (empty,
\* not a bcrypt string) it returns False, as for a wrong password.
C14_VerifyPasswordNeverRaises ==
    VerifyPasswordDone =>
      /\ last.result.kind = "bool"
      /\ (last.hashed_password.scheme # "bcrypt") => ~last.result.value

\* C15: verify_password(P, get_password_hash(Q)) is True when P = Q and
\* False when P differs from Q, the empty password included.
C15_VerifiesExactlyTheHashedPassword ==
    \A i \in 1..Len(digests) :
       (VerifyPasswordDone /\ last.hashed_password = digests[i].digest) =>
          /\ last.result.kind = "bool"
          /\ last.result.value = (last.plain_password = digests[i].password)

\* C16: two calls of get_password_hash with the same password return two
\* different digests, and the password verifies against both.
C16_SamePasswordTwoDigests ==
    \A i, j \in 1..Len(digests) :
       (i < j /\ digests[i].password = digests[j].password) =>
          /\ digests[i].digest # digests[j].digest
          /\ verify_password(digests[i].password, digests[i].digest).value
          /\ verify_password(digests[j].password, digests[j].digest).value

\* one password was hashed twice
C16_Witness ==
    /\ last.op = "get_password_hash"
    /\ \E i, j \in 1..Len(digests) :
          /\ i < j
          /\ digests[i].password = digests[j].password
          /\ digests[j].digest = last.result

(* ====================== properties of the failures ===================== *)

\* C21: a login whose email is no address, or whose email and password are
\* empty, is answered 401 and not 422.
C21_BadEmailIs401 ==
    (LoginDone /\ (\/ ~IsEmailSyntax(last.email)
                   \/ (last.email = Plain("") /\ last.password = ""))) =>
      /\ last.response.status = 401
      /\ last.response.status # 422

\* a valid token of a deactivated account was presented
AccountInactiveCase ==
    /\ MeDone
    /\ CarriesBearer(last.authorization)
    /\ ValidTokenAt(last.authorization.token, last.at)
    /\ \E e \in ResolvedKeys(last.authorization.token, fake_users_db) :
          ~fake_users_db[e].is_active

\* C22: every failure of login and current-user is either "authentication
\* failed" (401) or "account inactive" (400 "Inactive user"): there is no
\* third class, and 400 is answered exactly for a valid token of a
\* deactivated account.
C22_TwoFailureClasses ==
    ((LoginDone \/ MeDone) /\ last.response.status # 200) =>
      /\ last.response.status \in {400, 401}
      /\ (last.response.status = 400) <=> AccountInactiveCase
      /\ (last.response.status = 400) <=> (last.response.detail = INACTIVE_USER_MESSAGE)

\* C23: a signature-valid, unexpired token resolves to its subject whatever
\* the store holds: verify_token succeeds and the lookup runs; a user that
\* was removed gives 401 "User not found", a deactivated one 400, and never
\* "Invalid or expired token".
C23_TokenResolutionIgnoresStore ==
    (MeDone /\ CarriesBearer(last.authorization)
            /\ ValidTokenAt(last.authorization.token, last.at)) =>
      /\ last.calls = << "verify_token", "get_user" >>
      /\ last.response.detail # "Invalid or expired token"
      /\ IF ResolvedKeys(last.authorization.token, fake_users_db) = {}
         THEN last.response.status = 401 /\ last.response.detail = "User not found"
         ELSE IF AccountInactiveCase
         THEN last.response.status = 400
         ELSE /\ last.response.status = 200
              /\ SameMailbox(ClaimsOf(last.authorization.token)["sub"],
                             last.response.body.email)

\* a valid token of the admin was presented after the admin was removed
C23_Witness ==
    /\ MeDone
    /\ AdminEmail \notin DOMAIN fake_users_db
    /\ CarriesBearer(last.authorization)
    /\ ValidTokenAt(last.authorization.token, last.at)
    /\ ClaimsOf(last.authorization.token)["sub"] = AdminEmail
    /\ last.response.detail = "User not found"

\* C26: verify_token returns a TokenData or None for every input; no
\* exception leaves it.
C26_VerifyTokenIsTotal ==
    VerifyDone => last.result.kind \in {"None", "TokenData"}

\* C27: a token made for an address verifies to that address at every time
\* from its issuance to its expiry; and a token that verified to None
\* verifies to None at every later call.
C27_ValidityIsMonotone ==
    /\ [](\A i \in VerifiedIssuances :
            (/\ Has(i.data, "sub") /\ IsEmailSyntax(i.data["sub"])
             /\ i.at <= last.at /\ last.at < i.expire) =>
               /\ last.result.kind = "TokenData"
               /\ SameMailbox(i.data["sub"], last.result.email))
    /\ [][(/\ last.op = "verify_token" /\ last'.op = "verify_token"
           /\ last'.token = last.token
           /\ last.result = None) => last'.result = None]_vars

\* a token that was valid when issued was verified after its expiry
C27_Witness ==
    \E i \in VerifiedIssuances :
       /\ Has(i.data, "sub") /\ IsEmailSyntax(i.data["sub"])
       /\ i.at < i.expire
       /\ i.at < last.at
       /\ ExpiredAt(last.token, last.at)
       /\ last.result = None

SigningKeyOf(t) == t.segments[3].mac.key

\* C25: once auth_service is imported, SECRET_KEY never changes; every token
\* create_access_token makes is signed with it under HS256, the algorithm
\* verify_token pins; so a token made for an address verifies at every time
\* before its expiry.
C25_KeyAndAlgorithmAreFixed ==
    /\ [][boot.pc # "main" => SECRET_KEY' = SECRET_KEY]_vars
    /\ [](\A i \in issued :
            /\ SigningKeyOf(i.token) = SECRET_KEY
            /\ i.token.segments[1].alg = ALGORITHM
            /\ i.token.segments[3].mac.alg = ALGORITHM)
    /\ [](\A i \in VerifiedIssuances :
            (/\ Has(i.data, "sub") /\ IsEmailSyntax(i.data["sub"])
             /\ last.at < i.expire) => last.result.kind = "TokenData")

\* the environment gained a SECRET_KEY after the import, and a token issued
\* afterwards verified
C25_Witness ==
    /\ boot.pc = "up"
    /\ Has(boot.environ, "SECRET_KEY")
    /\ SECRET_KEY # boot.environ["SECRET_KEY"]
    /\ VerifiedIssuances # {}
    /\ last.result.kind = "TokenData"

\* C28: the process signs and verifies with the SECRET_KEY of its
\* environment, the .env file included, and with the fallback key only when
\* SECRET_KEY is configured in neither.
C28_DotenvKeyIsUsed ==
    boot.pc = "up" =>
      /\ SECRET_KEY =
            getenv(load_dotenv(boot.environ, boot.dotenv), "SECRET_KEY",
                   FALLBACK_SECRET_KEY)
      /\ (SECRET_KEY = FALLBACK_SECRET_KEY) =>
            ~(Has(boot.environ, "SECRET_KEY") \/ Has(boot.dotenv, "SECRET_KEY"))
      /\ \A i \in issued :
            SigningKeyOf(i.token) =
               getenv(load_dotenv(boot.environ, boot.dotenv), "SECRET_KEY",
                      FALLBACK_SECRET_KEY)

(* ==================== properties of the Strava callback ================ *)

StravaCallbackDone == last.op = "strava_callback"

\* the callback answered 302 to the settings page with this query
RedirectsWith(query) ==
    /\ last.response.kind = "RedirectResponse"
    /\ last.response.status = 302
    /\ last.response.location = settings_url(query)

\* the exchange gave a body with access_token
ExchangeGaveAccessToken ==
    /\ last.exchanged
    /\ last.reply.kind = "response"
    /\ last.reply.status_code = 200
    /\ last.reply.json = "object"
    /\ "access_token" \in last.reply.keys

\* C29 as stated: strava_callback always answers 302 to the settings page;
\* an error parameter that is present gives strava_auth_failed without an
\* exchange; otherwise a missing code gives strava_no_code without an
\* exchange; otherwise the exchange is made and its failure gives
\* strava_token_exchange_failed, its success strava_connected=true.
C29_PrecedenceByPresence ==
    StravaCallbackDone =>
      /\ \E q \in {"error=strava_auth_failed", "error=strava_no_code",
                   "error=strava_token_exchange_failed",
                   "strava_connected=true"} : RedirectsWith(q)
      /\ last.error.present =>
            RedirectsWith("error=strava_auth_failed") /\ ~last.exchanged
      /\ (~last.error.present /\ ~last.code.present) =>
            RedirectsWith("error=strava_no_code") /\ ~last.exchanged
      /\ (~last.error.present /\ last.code.present) =>
            /\ last.exchanged
            /\ IF ExchangeGaveAccessToken
               THEN RedirectsWith("strava_connected=true")
               ELSE RedirectsWith("error=strava_token_exchange_failed")

\* C29, amended: strava_callback always answers 302 to the settings page; a
\* non-empty error parameter gives strava_auth_failed without an exchange,
\* whatever the code; otherwise a missing or empty code gives strava_no_code
\* without an exchange; otherwise the exchange is made, and it gives
\* strava_connected=true exactly when it returned a body with access_token
\* and strava_token_exchange_failed in every other case.
C29_PrecedenceByTruthiness ==
    StravaCallbackDone =>
      /\ \E q \in {"error=strava_auth_failed", "error=strava_no_code",
                   "error=strava_token_exchange_failed",
                   "strava_connected=true"} : RedirectsWith(q)
      /\ truthy(last.error) =>
            RedirectsWith("error=strava_auth_failed") /\ ~last.exchanged
      /\ (~truthy(last.error) /\ ~truthy(last.code)) =>
            RedirectsWith("error=strava_no_code") /\ ~last.exchanged
      /\ (~truthy(last.error) /\ truthy(last.code)) =>
            /\ last.exchanged
            /\ IF ExchangeGaveAccessToken
               THEN RedirectsWith("strava_connected=true")
               ELSE RedirectsWith("error=strava_token_exchange_failed")

\* an error arrived together with a code, and no exchange was made
C29_Witness ==
    /\ StravaCallbackDone
    /\ truthy(last.error)
    /\ truthy(last.code)
    /\ ~last.exchanged
    /\ RedirectsWith("error=strava_auth_failed")

(* ===================== properties of concurrent requests =============== *)

\* the response to the request had it run alone against the seeded store
\* with the clock reading it took
Alone(request) ==
    IF request.kind = "login"
    THEN LET body == UserLogin(request.email, request.password) IN
         Response(IF body.kind = "UserLogin"
                  THEN login_for_access_token(body, SeededStore, request.at)
                  ELSE body)
    ELSE Response(get_current_user_info(request.authorization, SeededStore,
                                        request.at).result)

\* C24: however the steps of concurrently handled login and current-user
\* requests interleave, the store stays as seeded and every finished request
\* has the response it would have had alone against the seeded store with
\* the same clock reading.
C24_InterleavingIsInvisible ==
    /\ fake_users_db = SeededStore
    /\ \A w \in Workers :
          inflight[w].pc = "done" => inflight[w].response = Alone(inflight[w])

\* a current-user request was answered 200 while a login with a wrong
\* password for the same account was answered 401 beside it
C24_Witness ==
    \E w1, w2 \in Workers :
        /\ w1 # w2
        /\ inflight[w1].kind = "me"
        /\ inflight[w1].pc = "done"
        /\ inflight[w1].response.status = 200
        /\ inflight[w1].response.body.email = AdminEmail
        /\ inflight[w2].kind = "login"
        /\ inflight[w2].pc = "done"
        /\ inflight[w2].email = AdminEmail
        /\ inflight[w2].response.status = 401

====
